---- MODULE Spec2Model ----
(***************************************************************************)
(* Model of accounting-api/server.js: the two reporting handlers           *)
(* GET /api/cash-flow and GET /api/bank-reconciliation over the table      *)
(* AccountingLedgerEntry, with an external writer changing the table while *)
(* a request is being handled.                                             *)
(*                                                                         *)
(* Encoding.  SQL NULL is the value NULL.  A query parameter that is       *)
(* absent from the URL is UNDEFINED, an empty one is "".  The column       *)
(* reconciled holds "true", "false" or NULL.  Amounts are integers (minor  *)
(* units) and never NULL in a row; a numeric query result is <<n>>, or     *)
(* <<>> for the NULL that SUM gives over no rows; a JavaScript number is   *)
(* <<n>>, or <<>> for NaN.  Dates are day numbers; the text of a date      *)
(* parameter is converted by DateOf.  A JSON object is the sequence of its *)
(* key/value pairs in insertion order, which is the order JSON.stringify   *)
(* writes them in.  A result set without ORDER BY is delivered in any      *)
(* order.                                                                  *)
(***************************************************************************)
EXTENDS Integers, Sequences, FiniteSets, TLC

NULL == "<null>"
UNDEFINED == "<undefined>"

(* ------------------------------------------------------------------ *)
(* Bounds                                                              *)
(* ------------------------------------------------------------------ *)
MaxRows == 2
MaxWrites == 1

(* ------------------------------------------------------------------ *)
(* Text: the characters of the notes and of the ILIKE patterns         *)
(* ------------------------------------------------------------------ *)
UpperCase == <<"A","B","C","D","E","F","G","H","I","J","K","L","M",
               "N","O","P","Q","R","S","T","U","V","W","X","Y","Z">>
LowerCase == <<"a","b","c","d","e","f","g","h","i","j","k","l","m",
               "n","o","p","q","r","s","t","u","v","w","x","y","z">>

Lower(c) ==
    IF \E i \in 1..26 : UpperCase[i] = c
    THEN LowerCase[CHOOSE i \in 1..26 : UpperCase[i] = c]
    ELSE c

LowerText(t) == [i \in 1..Len(t) |-> Lower(t[i])]

\* t contains p as a contiguous run of characters
Contains(t, p) ==
    \E k \in 0..(Len(t) - Len(p)) :
        \A i \in 1..Len(p) : t[k + i] = p[i]

LoanDepositPattern == <<"L","o","a","n"," ","d","e","p","o","s","i","t">>
PurchaseInventoryPattern ==
    <<"P","u","r","c","h","a","s","e"," ","i","n","v","e","n","t","o","r","y">>

\* the characters of each note stored in the table
Chars(note) ==
    CASE note = "LOAN DEPOSIT from bank" ->
            <<"L","O","A","N"," ","D","E","P","O","S","I","T"," ",
              "f","r","o","m"," ","b","a","n","k">>
      [] note = "purchase Inventory" ->
            <<"p","u","r","c","h","a","s","e"," ","I","n","v","e","n","t","o","r","y">>
      [] note = "Loan deposits" ->
            <<"L","o","a","n"," ","d","e","p","o","s","i","t","s">>
      [] note = "Loan repaid" ->
            <<"L","o","a","n"," ","r","e","p","a","i","d">>
      [] OTHER -> <<>>

\* note ILIKE '%lit%' is true: NULL ILIKE anything is unknown, never true
ILike(note, lit) ==
    /\ note # NULL
    /\ Contains(LowerText(Chars(note)), LowerText(lit))

(* ------------------------------------------------------------------ *)
(* Query parameters                                                    *)
(* ------------------------------------------------------------------ *)
\* JavaScript !x for a query-string value
Falsy(x) == x = UNDEFINED \/ x = ""

\* the column value a parameter text is cast to by the database
CompanyOf(text) ==
    CASE text = "1" -> 1

DateOf(text) ==
    CASE text = "2025-01-02" -> 2
      [] text = "2025-01-03" -> 3

(* ------------------------------------------------------------------ *)
(* The table AccountingLedgerEntry                                     *)
(* ------------------------------------------------------------------ *)
Entry(id, companyid, date, account, party, note, debit, credit, reconciled, bankaccount, reference) ==
    [id |-> id, companyid |-> companyid, date |-> date, account |-> account,
     party |-> party, note |-> note, debit |-> debit, credit |-> credit,
     reconciled |-> reconciled, bankaccount |-> bankaccount,
     reference |-> reference]

\* the rows the external writer can put into the table
EntryUniverse ==
    { Entry(1, 1, 2, "Cash", NULL, NULL, 100, 0, "true", "MainBank", NULL),
      Entry(2, 1, 3, "Office Rent", NULL, NULL, 0, 40, "true", "MainBank", NULL),
      Entry(3, 1, 2, "Cash", "Investor", "purchase Inventory", 500, 0, "true",
            "MainBank", NULL),
      Entry(4, 1, 3, "Cash", NULL, "LOAN DEPOSIT from bank", 100, 40, "true",
            "MainBank", NULL),
      Entry(5, 1, 2, "Cash", "Supplier", "purchase Inventory", 100, 0, "true",
            "MainBank", NULL),
      Entry(6, 1, 2, "Cash", NULL, "Loan repaid", 100, 0, "false", "MainBank",
            "CHQ102"),
      Entry(7, 1, 2, "Bank Charges", NULL, NULL, 0, 40, NULL, "MainBank",
            "CHQ104"),
      Entry(8, 2, 2, "Cash", "Investor", NULL, 500, 0, "true", "MainBank", NULL),
      Entry(9, 1, 2, "Utilities Expense", NULL, NULL, 0, 40, "false", "Other",
            NULL),
      Entry(10, 1, 2, "Sales", NULL, NULL, 100, 0, "true", "MainBank", NULL),
      Entry(11, 1, 3, "Utilities Expense", "Investor", "Loan deposits", 100, 40,
            "true", "MainBank", NULL),
      Entry(12, 1, 1, "Cash", NULL, NULL, 100, 0, "false", "MainBank", "CHQ999"),
      \* entry 1 as an UPDATE leaves it: dated before the reporting period
      Entry(1, 1, 1, "Cash", NULL, NULL, 100, 0, "true", "MainBank", NULL) }

\* id is the primary key
Ledgers ==
    { L \in SUBSET EntryUniverse :
        /\ Cardinality(L) <= MaxRows
        /\ \A e1, e2 \in L : e1.id = e2.id => e1 = e2 }

RECURSIVE SumDebit(_)
SumDebit(S) ==
    IF S = {} THEN 0
    ELSE LET e == CHOOSE x \in S : TRUE IN e.debit + SumDebit(S \ {e})

RECURSIVE SumCredit(_)
SumCredit(S) ==
    IF S = {} THEN 0
    ELSE LET e == CHOOSE x \in S : TRUE IN e.credit + SumCredit(S \ {e})

\* SQL SUM(debit) and SUM(credit): NULL over no rows
SqlSumDebit(S) == IF S = {} THEN <<>> ELSE <<SumDebit(S)>>
SqlSumCredit(S) == IF S = {} THEN <<>> ELSE <<SumCredit(S)>>

\* SQL a - b on numeric results: NULL if either is NULL
SqlMinus(a, b) == IF a = <<>> \/ b = <<>> THEN <<>> ELSE <<a[1] - b[1]>>

\* the orders in which a result set without ORDER BY can be delivered
Orderings(S) ==
    { s \in [1..Cardinality(S) -> S] :
        \A i, j \in 1..Cardinality(S) : i # j => s[i] # s[j] }

(* ------------------------------------------------------------------ *)
(* JavaScript helpers                                                  *)
(* ------------------------------------------------------------------ *)
\* parseFloat of a numeric column as the driver delivers it: null gives NaN
ParseFloat(raw) == IF raw = <<>> THEN <<>> ELSE <<raw[1]>>

\* x || 0 on a number: NaN and 0 are falsy
OrZero(x) == IF x = <<>> \/ x = <<0>> THEN 0 ELSE x[1]

\* Number(raw): Number(null) is 0
JsNumber(raw) == IF raw = <<>> THEN <<0>> ELSE <<raw[1]>>

IsFinite(x) == x # <<>>

\* obj[k] = v on an object kept as its key/value pairs in insertion order
SetKey(obj, k, v) ==
    IF \E i \in 1..Len(obj) : obj[i].key = k
    THEN [i \in 1..Len(obj) |->
            IF obj[i].key = k THEN [key |-> k, value |-> v] ELSE obj[i]]
    ELSE Append(obj, [key |-> k, value |-> v])

(* ------------------------------------------------------------------ *)
(* getOpeningBalance                                                   *)
(* ------------------------------------------------------------------ *)
\* faulty variant: only reconciled entries count towards the opening balance
OpeningBalanceWhere_ReconciledOnly(e, companyid, toDate) ==
    /\ e.reconciled = "true"
    /\ e.companyid = CompanyOf(companyid)
    /\ e.date < DateOf(toDate)

\* WHERE companyid = $1 AND date < $2
OpeningBalanceWhere(e, companyid, toDate) ==
    /\ e.companyid = CompanyOf(companyid)
    /\ e.date < DateOf(toDate)

\* the balance column of the one row the query returns
OpeningBalanceQuery(L, companyid, toDate) ==
    LET sel == { e \in L : OpeningBalanceWhere(e, companyid, toDate) }
    IN  SqlMinus(SqlSumDebit(sel), SqlSumCredit(sel))

getOpeningBalance(L, companyid, toDate) ==
    LET raw == OpeningBalanceQuery(L, companyid, toDate)
        parsed == JsNumber(raw)
    IN  IF IsFinite(parsed) THEN parsed[1] ELSE 0

(* ------------------------------------------------------------------ *)
(* GET /api/cash-flow: the aggregation query and the loop over it      *)
(* ------------------------------------------------------------------ *)
CashFlowMissingError ==
    "Missing required query parameters: companyid, fromDate, toDate"

\* faulty variant: toDate is not validated
CashFlowMissing_ToDateUnchecked(q) ==
    Falsy(q.companyid) \/ Falsy(q.fromDate)

CashFlowMissing(q) ==
    Falsy(q.companyid) \/ Falsy(q.fromDate) \/ Falsy(q.toDate)

ExpenseAccounts == {"Office Rent", "Utilities Expense", "Bank Charges"}

\* faulty variant: the 'Purchase inventory' rule is tried first
CashflowCategory_InvestingFirst(e) ==
    IF ILike(e.note, PurchaseInventoryPattern)
    THEN "Investing"
    ELSE IF e.account \in {"Cash"}
            /\ (e.party = "Investor" \/ ILike(e.note, LoanDepositPattern))
    THEN "Financing"
    ELSE "Operating"

\* the CASE expression of sqlQuery
CashflowCategory(e) ==
    IF e.account \in {"Cash"}
       /\ (e.party = "Investor" \/ ILike(e.note, LoanDepositPattern))
    THEN "Financing"
    ELSE IF e.account \in {"Sales", "Office Rent", "Utilities Expense", "Bank Charges"}
    THEN "Operating"
    ELSE IF ILike(e.note, PurchaseInventoryPattern)
    THEN "Investing"
    ELSE "Operating"

\* faulty variant: the WHERE clause without reconciled = TRUE
CashFlowWhere_AnyReconciled(e, companyid, fromDate, toDate) ==
    /\ e.companyid = CompanyOf(companyid)
    /\ e.date >= DateOf(fromDate) /\ e.date <= DateOf(toDate)
    /\ \/ (e.account = "Cash" /\ e.debit > 0)
       \/ (e.credit > 0 /\ e.account \in ExpenseAccounts)

\* the WHERE clause of sqlQuery
CashFlowWhere(e, companyid, fromDate, toDate) ==
    /\ e.reconciled = "true"
    /\ e.companyid = CompanyOf(companyid)
    /\ e.date >= DateOf(fromDate) /\ e.date <= DateOf(toDate)
    /\ \/ (e.account = "Cash" /\ e.debit > 0)
       \/ (e.credit > 0 /\ e.account \in ExpenseAccounts)

\* the result set of sqlQuery: one row for each category that has entries
CashFlowQuery(L, companyid, fromDate, toDate) ==
    LET sel == { e \in L : CashFlowWhere(e, companyid, fromDate, toDate) }
        grp(c) == { e \in sel : CashflowCategory(e) = c }
    IN  { [cashflow_category |-> c,
           total_inflow |-> SqlSumDebit(grp(c)),
           total_outflow |-> SqlSumCredit(grp(c))] :
          c \in { CashflowCategory(e) : e \in sel } }

NoTotals ==
    [cashInflows |-> <<>>, cashOutflows |-> <<>>,
     totalInflows |-> 0, totalOutflows |-> 0]

\* faulty variant: each record carries the category's other side as well
CashFlowRow_CrossValue(acc, row) ==
    LET category == row.cashflow_category
        inflow == OrZero(ParseFloat(row.total_inflow))
        outflow == OrZero(ParseFloat(row.total_outflow))
    IN  [cashInflows |->
            IF inflow > 0
            THEN SetKey(acc.cashInflows, category,
                        [inflows |-> inflow, outflows |-> outflow])
            ELSE acc.cashInflows,
         cashOutflows |->
            IF outflow > 0
            THEN SetKey(acc.cashOutflows, category,
                        [inflows |-> inflow, outflows |-> outflow])
            ELSE acc.cashOutflows,
         totalInflows |-> acc.totalInflows + inflow,
         totalOutflows |-> acc.totalOutflows + outflow]

\* one pass of result.rows.forEach
CashFlowRow(acc, row) ==
    LET category == row.cashflow_category
        inflow == OrZero(ParseFloat(row.total_inflow))
        outflow == OrZero(ParseFloat(row.total_outflow))
    IN  [cashInflows |->
            IF inflow > 0
            THEN SetKey(acc.cashInflows, category,
                        [inflows |-> inflow, outflows |-> 0])
            ELSE acc.cashInflows,
         cashOutflows |->
            IF outflow > 0
            THEN SetKey(acc.cashOutflows, category,
                        [inflows |-> 0, outflows |-> outflow])
            ELSE acc.cashOutflows,
         totalInflows |-> acc.totalInflows + inflow,
         totalOutflows |-> acc.totalOutflows + outflow]

RECURSIVE CashFlowForEach(_, _)
CashFlowForEach(rows, acc) ==
    IF rows = <<>> THEN acc
    ELSE CashFlowForEach(Tail(rows), CashFlowRow(acc, Head(rows)))

(* ------------------------------------------------------------------ *)
(* GET /api/bank-reconciliation                                        *)
(* ------------------------------------------------------------------ *)
BankReconciliationMissingError ==
    "Missing required query parameters: companyid, bankaccount"

BankReconciliationMissing(q) == Falsy(q.companyid) \/ Falsy(q.bankaccount)

\* faulty variant: the WHERE clause without OR reconciled IS NULL
UnreconciledWhere_FalseOnly(e, companyid, bankaccount) ==
    /\ e.reconciled = "false"
    /\ e.companyid = CompanyOf(companyid)
    /\ e.bankaccount = bankaccount

\* the WHERE clause of unreconciledQuery
UnreconciledWhere(e, companyid, bankaccount) ==
    /\ (e.reconciled = "false" \/ e.reconciled = NULL)
    /\ e.companyid = CompanyOf(companyid)
    /\ e.bankaccount = bankaccount

UnreconciledQuery(L, companyid, bankaccount) ==
    { e \in L : UnreconciledWhere(e, companyid, bankaccount) }

ledgerBalance == 22500
bankStatementBalance == 19000
adjustedBalance == ledgerBalance - 3000 - 500

\* faulty variant: the CHQ102 branch is missing
Description_NoCHQ102(item) ==
    IF item.reference = "CHQ104"
    THEN "Bank charges not yet recorded in the ledger"
    ELSE ""

Description(item) ==
    IF item.reference = "CHQ102"
    THEN "Cheque CHQ102 has not yet cleared the bank"
    ELSE IF item.reference = "CHQ104"
    THEN "Bank charges not yet recorded in the ledger"
    ELSE ""

\* { ...item, description }
DescribedItem(item) ==
    [f \in (DOMAIN item) \cup {"description"} |->
        IF f = "description" THEN Description(item) ELSE item[f]]

describedItems(reconcilingItems) ==
    [i \in 1..Len(reconcilingItems) |-> DescribedItem(reconcilingItems[i])]

(* ------------------------------------------------------------------ *)
(* State                                                               *)
(* ------------------------------------------------------------------ *)
VARIABLES
    ledger,    \* the rows of AccountingLedgerEntry
    writes,    \* number of external writes committed so far
    pc,        \* where the handler of the request in flight stands
    route,     \* the path of the request in flight
    query,     \* req.query of the request in flight
    totals,    \* cashInflows, cashOutflows and the totals after the forEach
    res,       \* the response sent for the request in flight
    queries,   \* history: the database queries issued for this request
    read,      \* history: the table contents each executed query saw
    prev       \* history: the last request answered with 200 from the table
               \* as it stands, once closed

vars == <<ledger, writes, pc, route, query, totals, res, queries, read, prev>>

CashFlowRoute == "/api/cash-flow"
BankReconciliationRoute == "/api/bank-reconciliation"

NoQuery ==
    [companyid |-> UNDEFINED, fromDate |-> UNDEFINED, toDate |-> UNDEFINED,
     bankaccount |-> UNDEFINED]
NoResponse == [status |-> 0, body |-> [none |-> TRUE]]
NoPrev == [route |-> "none", query |-> NoQuery, body |-> [none |-> TRUE]]

\* how many of the named parameters are absent or empty
Defects(q, names) == Cardinality({ n \in names : Falsy(q[n]) })

\* the query strings a client sends to /api/cash-flow: complete, with one
\* parameter absent or empty, or with no parameter at all
CashFlowQueries ==
    { q \in [companyid : {UNDEFINED, "", "1"},
             fromDate : {UNDEFINED, "", "2025-01-02"},
             toDate : {UNDEFINED, "", "2025-01-02", "2025-01-03"},
             bankaccount : {UNDEFINED}] :
        \/ Defects(q, {"companyid", "fromDate", "toDate"}) <= 1
        \/ q = NoQuery }

\* the query strings a client sends to /api/bank-reconciliation
BankReconciliationQueries ==
    { q \in [companyid : {UNDEFINED, "", "1"},
             fromDate : {UNDEFINED},
             toDate : {UNDEFINED},
             bankaccount : {UNDEFINED, "", "MainBank", "Other"}] :
        \/ Defects(q, {"companyid", "bankaccount"}) <= 1
        \/ q = NoQuery }

Init ==
    /\ ledger \in Ledgers
    /\ writes = 0
    /\ pc = "idle"
    /\ route = "none"
    /\ query = NoQuery
    /\ totals = NoTotals
    /\ res = NoResponse
    /\ queries = <<>>
    /\ read = <<>>
    /\ prev = NoPrev

(* ------------------------------------------------------------------ *)
(* The external writer                                                 *)
(* ------------------------------------------------------------------ *)
\* another client of the database commits an INSERT, a DELETE or an UPDATE
\* of one row
ExternalWrite ==
    /\ writes < MaxWrites
    /\ \/ \E e \in EntryUniverse :
            /\ Cardinality(ledger) < MaxRows
            /\ \A x \in ledger : x.id # e.id
            /\ ledger' = ledger \cup {e}
       \/ \E e \in ledger : ledger' = ledger \ {e}
       \/ \E e \in ledger : \E u \in EntryUniverse :
            /\ u.id = e.id /\ u # e
            /\ ledger' = (ledger \ {e}) \cup {u}
    /\ writes' = writes + 1
    /\ prev' = NoPrev
    /\ UNCHANGED <<pc, route, query, totals, res, queries, read>>

(* ------------------------------------------------------------------ *)
(* GET /api/cash-flow                                                  *)
(* ------------------------------------------------------------------ *)
\* the handler up to its first await: validation, then pool.query(sqlQuery)
CashFlowRequest ==
    /\ pc = "idle"
    /\ \E q \in CashFlowQueries :
        /\ route' = CashFlowRoute
        /\ query' = q
        /\ IF CashFlowMissing(q)
           THEN /\ res' = [status |-> 400,
                           body |-> [error |-> CashFlowMissingError]]
                /\ pc' = "done"
                /\ queries' = <<>>
           ELSE /\ res' = NoResponse
                /\ pc' = "sqlQuery"
                /\ queries' = <<"sqlQuery">>
    /\ UNCHANGED <<ledger, writes, totals, read, prev>>

\* sqlQuery is executed; the handler loops over its rows and calls
\* getOpeningBalance, which issues the second query
CashFlowAggregate ==
    /\ pc = "sqlQuery"
    /\ \E rows \in Orderings(CashFlowQuery(ledger, query.companyid,
                                           query.fromDate, query.toDate)) :
        totals' = CashFlowForEach(rows, NoTotals)
    /\ pc' = "getOpeningBalance"
    /\ queries' = Append(queries, "getOpeningBalance")
    /\ read' = Append(read, ledger)
    /\ UNCHANGED <<ledger, writes, route, query, res, prev>>

\* faulty variant: the opening balance is read from the table as the
\* aggregation query saw it, as under one snapshot for both queries
CashFlowRespond_OneSnapshot ==
    /\ pc = "getOpeningBalance"
    /\ LET netChange == totals.totalInflows - totals.totalOutflows
           openingBalance == getOpeningBalance(read[1], query.companyid,
                                               query.fromDate)
           closingBalance == openingBalance + netChange
       IN  res' = [status |-> 200,
                   body |-> [cashInflows |-> totals.cashInflows,
                             cashOutflows |-> totals.cashOutflows,
                             netChangeInCash |-> netChange,
                             closingCashBalance |-> closingBalance]]
    /\ pc' = "done"
    /\ read' = Append(read, ledger)
    /\ UNCHANGED <<ledger, writes, route, query, totals, queries, prev>>

\* the opening-balance query is executed; the handler responds
CashFlowRespond ==
    /\ pc = "getOpeningBalance"
    /\ LET netChange == totals.totalInflows - totals.totalOutflows
           openingBalance == getOpeningBalance(ledger, query.companyid,
                                               query.fromDate)
           closingBalance == openingBalance + netChange
       IN  res' = [status |-> 200,
                   body |-> [cashInflows |-> totals.cashInflows,
                             cashOutflows |-> totals.cashOutflows,
                             netChangeInCash |-> netChange,
                             closingCashBalance |-> closingBalance]]
    /\ pc' = "done"
    /\ read' = Append(read, ledger)
    /\ UNCHANGED <<ledger, writes, route, query, totals, queries, prev>>

\* either query of the cash-flow handler rejects: the catch block answers
CashFlowCatch ==
    /\ pc \in {"sqlQuery", "getOpeningBalance"}
    /\ res' = [status |-> 500, body |-> [error |-> "Internal server error"]]
    /\ pc' = "done"
    /\ UNCHANGED <<ledger, writes, route, query, totals, queries, read, prev>>

(* ------------------------------------------------------------------ *)
(* GET /api/bank-reconciliation                                        *)
(* ------------------------------------------------------------------ *)
BankReconciliationRequest ==
    /\ pc = "idle"
    /\ \E q \in BankReconciliationQueries :
        /\ route' = BankReconciliationRoute
        /\ query' = q
        /\ IF BankReconciliationMissing(q)
           THEN /\ res' = [status |-> 400,
                           body |-> [error |-> BankReconciliationMissingError]]
                /\ pc' = "done"
                /\ queries' = <<>>
           ELSE /\ res' = NoResponse
                /\ pc' = "unreconciledQuery"
                /\ queries' = <<"unreconciledQuery">>
    /\ UNCHANGED <<ledger, writes, totals, read, prev>>

BankReconciliationRespond ==
    /\ pc = "unreconciledQuery"
    /\ \E reconcilingItems \in
            Orderings(UnreconciledQuery(ledger, query.companyid,
                                        query.bankaccount)) :
        res' = [status |-> 200,
                body |-> [ledger_balance |-> ledgerBalance,
                          bank_statement_balance |-> bankStatementBalance,
                          reconciling_items |-> describedItems(reconcilingItems),
                          adjusted_balance_after_reconciliation |->
                              adjustedBalance]]
    /\ pc' = "done"
    /\ read' = Append(read, ledger)
    /\ UNCHANGED <<ledger, writes, route, query, totals, queries, prev>>

BankReconciliationCatch ==
    /\ pc = "unreconciledQuery"
    /\ res' = [status |-> 500,
               body |-> [error |-> "An error occurred while processing request."]]
    /\ pc' = "done"
    /\ UNCHANGED <<ledger, writes, route, query, totals, queries, read, prev>>

(* ------------------------------------------------------------------ *)
(* End of a request                                                    *)
(* ------------------------------------------------------------------ *)
\* the response is on the wire; the next request can be taken
Close ==
    /\ pc = "done"
    /\ prev' = IF res.status # 200 THEN prev
               ELSE IF \A i \in 1..Len(read) : read[i] = ledger
               THEN [route |-> route, query |-> query, body |-> res.body]
               ELSE NoPrev
    /\ pc' = "idle"
    /\ route' = "none"
    /\ query' = NoQuery
    /\ totals' = NoTotals
    /\ res' = NoResponse
    /\ queries' = <<>>
    /\ read' = <<>>
    /\ UNCHANGED <<ledger, writes>>

Next ==
    \/ ExternalWrite
    \/ CashFlowRequest
    \/ CashFlowAggregate
    \/ CashFlowRespond
    \/ CashFlowCatch
    \/ BankReconciliationRequest
    \/ BankReconciliationRespond
    \/ BankReconciliationCatch
    \/ Close

Spec == Init /\ [][Next]_vars

(* ------------------------------------------------------------------ *)
(* Vocabulary of the properties                                        *)
(* ------------------------------------------------------------------ *)
Categories == {"Financing", "Operating", "Investing"}

CashFlowAnswered ==
    pc = "done" /\ route = CashFlowRoute /\ res.status = 200
BankReconciliationAnswered ==
    pc = "done" /\ route = BankReconciliationRoute /\ res.status = 200

Absent(x) == x \in {UNDEFINED, ""}

HasKey(obj, k) == \E i \in 1..Len(obj) : obj[i].key = k
ValueOf(obj, k) == obj[CHOOSE i \in 1..Len(obj) : obj[i].key = k].value
KeysOnce(obj) ==
    \A i, j \in 1..Len(obj) : obj[i].key = obj[j].key => i = j
Pairs(obj) == { obj[i] : i \in 1..Len(obj) }

\* the entries the row filter of the cash-flow report lets through
Filtered(L, q) ==
    { e \in L :
        /\ e.reconciled = "true"
        /\ e.companyid = CompanyOf(q.companyid)
        /\ DateOf(q.fromDate) <= e.date /\ e.date <= DateOf(q.toDate)
        /\ \/ e.account = "Cash" /\ e.debit > 0
           \/ e.credit > 0
              /\ e.account \in {"Office Rent", "Utilities Expense", "Bank Charges"} }

\* the notes of the table that contain the phrase, letter case ignored
MentionsLoanDeposit(e) == e.note \in {"LOAN DEPOSIT from bank", "Loan deposits"}
MentionsPurchaseInventory(e) == e.note \in {"purchase Inventory"}

Rule1(e) == e.account = "Cash" /\ (e.party = "Investor" \/ MentionsLoanDeposit(e))
Rule2(e) == e.account \in {"Sales", "Office Rent", "Utilities Expense", "Bank Charges"}
Rule3(e) == MentionsPurchaseInventory(e)

\* the first rule that matches decides
CategoryOf(e) ==
    CASE Rule1(e) -> "Financing"
      [] ~Rule1(e) /\ Rule2(e) -> "Operating"
      [] ~Rule1(e) /\ ~Rule2(e) /\ Rule3(e) -> "Investing"
      [] OTHER -> "Operating"

In(L, q, c) == SumDebit({ e \in Filtered(L, q) : CategoryOf(e) = c })
Out(L, q, c) == SumCredit({ e \in Filtered(L, q) : CategoryOf(e) = c })
NetChange(L, q) ==
    In(L, q, "Financing") + In(L, q, "Operating") + In(L, q, "Investing")
    - (Out(L, q, "Financing") + Out(L, q, "Operating") + Out(L, q, "Investing"))

RECURSIVE SumDebitMinusCredit(_)
SumDebitMinusCredit(S) ==
    IF S = {} THEN 0
    ELSE LET e == CHOOSE x \in S : TRUE
         IN  (e.debit - e.credit) + SumDebitMinusCredit(S \ {e})

\* the balance of the company's entries dated before the cutoff
OpeningOf(L, q) ==
    SumDebitMinusCredit({ e \in L : /\ e.companyid = CompanyOf(q.companyid)
                                    /\ e.date < DateOf(q.fromDate) })

(* ------------------------------------------------------------------ *)
(* C1                                                                  *)
(* ------------------------------------------------------------------ *)
LacksRequired ==
    \/ /\ route = CashFlowRoute
       /\ (Absent(query.companyid) \/ Absent(query.fromDate) \/ Absent(query.toDate))
    \/ /\ route = BankReconciliationRoute
       /\ (Absent(query.companyid) \/ Absent(query.bankaccount))

\* C1: a request that lacks a required parameter, or has it empty, is
\* answered 400 with a body {error}, and no database query is issued or
\* executed while it is handled.
C1_MissingParameterRejected ==
    LacksRequired =>
        /\ pc = "done"
        /\ res.status = 400
        /\ DOMAIN res.body = {"error"}
        /\ queries = <<>> /\ read = <<>>

C1_Witness ==
    /\ route = CashFlowRoute
    /\ query.companyid = "1" /\ query.fromDate = "2025-01-02" /\ query.toDate = ""
    /\ res.status = 400
    /\ ledger # {}

(* ------------------------------------------------------------------ *)
(* C2                                                                  *)
(* ------------------------------------------------------------------ *)
\* C2: in a cash-flow response, cashInflows has category c exactly when
\* In(c) > 0, with value {inflows: In(c), outflows: 0}; cashOutflows has c
\* exactly when Out(c) > 0, with value {inflows: 0, outflows: Out(c)};
\* netChangeInCash is the sum of the In(c) minus the sum of the Out(c).
C2_CashFlowTotals ==
    CashFlowAnswered =>
        LET L == read[1]
            b == res.body
        IN  /\ KeysOnce(b.cashInflows) /\ KeysOnce(b.cashOutflows)
            /\ \A p \in Pairs(b.cashInflows) \cup Pairs(b.cashOutflows) :
                    p.key \in Categories
            /\ \A c \in Categories :
                /\ HasKey(b.cashInflows, c) <=> In(L, query, c) > 0
                /\ HasKey(b.cashInflows, c) =>
                     ValueOf(b.cashInflows, c) =
                        [inflows |-> In(L, query, c), outflows |-> 0]
                /\ HasKey(b.cashOutflows, c) <=> Out(L, query, c) > 0
                /\ HasKey(b.cashOutflows, c) =>
                     ValueOf(b.cashOutflows, c) =
                        [inflows |-> 0, outflows |-> Out(L, query, c)]
            /\ b.netChangeInCash = NetChange(L, query)

\* the example: Cash debit 100 and Office Rent credit 40, both in range
C2_Witness ==
    /\ CashFlowAnswered
    /\ { e.id : e \in read[1] } = {1, 2}
    /\ res.body.cashInflows =
         <<[key |-> "Operating", value |-> [inflows |-> 100, outflows |-> 0]]>>
    /\ res.body.cashOutflows =
         <<[key |-> "Operating", value |-> [inflows |-> 0, outflows |-> 40]]>>
    /\ res.body.netChangeInCash = 60

(* ------------------------------------------------------------------ *)
(* C3                                                                  *)
(* ------------------------------------------------------------------ *)
InflowsOf(b, c) ==
    IF HasKey(b.cashInflows, c) THEN ValueOf(b.cashInflows, c).inflows ELSE 0
OutflowsOf(b, c) ==
    IF HasKey(b.cashOutflows, c) THEN ValueOf(b.cashOutflows, c).outflows ELSE 0

\* C3: every aggregated entry is counted under one category; an entry with
\* account Cash and party Investor, or with a note containing 'Loan
\* deposit' in any letter case, is counted under Financing and under
\* nothing else, whatever its note says about purchasing inventory.
C3_FinancingWins ==
    CashFlowAnswered =>
        LET sel == Filtered(read[1], query)
            fin == { e \in sel : Rule1(e) }
            b == res.body
        IN  /\ InflowsOf(b, "Financing") = SumDebit(fin)
            /\ OutflowsOf(b, "Financing") = SumCredit(fin)
            /\ InflowsOf(b, "Operating") + InflowsOf(b, "Investing")
                 = SumDebit(sel \ fin)
            /\ OutflowsOf(b, "Operating") + OutflowsOf(b, "Investing")
                 = SumCredit(sel \ fin)

C3_Witness ==
    /\ CashFlowAnswered
    /\ \E e \in read[1] :
         /\ e.account = "Cash" /\ e.party = "Investor"
         /\ e.note = "purchase Inventory" /\ e.debit = 500
    /\ \E e \in read[1] : e.note = "LOAN DEPOSIT from bank"
    /\ InflowsOf(res.body, "Financing") = 600
    /\ ~HasKey(res.body.cashInflows, "Investing")
    /\ ~HasKey(res.body.cashInflows, "Operating")

(* ------------------------------------------------------------------ *)
(* C4                                                                  *)
(* ------------------------------------------------------------------ *)
Reconciled(L) == { e \in L : e.reconciled = "true" }

\* what the handler computes from one delivery of sqlQuery's rows on L
TotalsOn(L, q) ==
    CashFlowForEach(
        CHOOSE rows \in Orderings(CashFlowQuery(L, q.companyid, q.fromDate,
                                                q.toDate)) : TRUE,
        NoTotals)

\* C4: the entries whose reconciled flag is not true have no effect on
\* cashInflows, cashOutflows and netChangeInCash: the response carries what
\* the table without those entries gives.
C4_UnreconciledExcluded ==
    CashFlowAnswered =>
        LET t == TotalsOn(Reconciled(read[1]), query)
            b == res.body
        IN  /\ Pairs(b.cashInflows) = Pairs(t.cashInflows)
            /\ Pairs(b.cashOutflows) = Pairs(t.cashOutflows)
            /\ Len(b.cashInflows) = Len(t.cashInflows)
            /\ Len(b.cashOutflows) = Len(t.cashOutflows)
            /\ b.netChangeInCash = t.totalInflows - t.totalOutflows

C4_Witness ==
    /\ CashFlowAnswered
    /\ query.companyid = "1"
    /\ \E e \in read[1] :
         /\ e.reconciled \in {"false", NULL}
         /\ e.companyid = 1 /\ e.date = 2
         /\ \/ e.account = "Cash" /\ e.debit = 100
            \/ e.account = "Bank Charges" /\ e.credit = 40
    /\ \E e \in read[1] : e.reconciled = "true" /\ e.id = 1 /\ e.date = 2
    /\ res.body.netChangeInCash = 100

(* ------------------------------------------------------------------ *)
(* C5                                                                  *)
(* ------------------------------------------------------------------ *)
CashFlowParameters == { q \in CashFlowQueries : ~CashFlowMissing(q) }

EntryFields ==
    {"id", "companyid", "date", "account", "party", "note", "debit", "credit",
     "reconciled", "bankaccount", "reference"}

\* the unreconciled entries of the requested company and bank account
Unreconciled(L, q) ==
    { e \in L : /\ e.companyid = CompanyOf(q.companyid)
                /\ e.bankaccount = q.bankaccount
                /\ e.reconciled # "true" }

\* C6: reconciling_items holds exactly the entries of the requested company
\* and bank account whose reconciled flag is false or null, each once, with
\* its fields kept and a description added.
C6_OnlyUnreconciled ==
    BankReconciliationAnswered =>
        LET items == res.body.reconciling_items
        IN  /\ \A i \in 1..Len(items) :
                 /\ DOMAIN items[i] = EntryFields \cup {"description"}
                 /\ [f \in EntryFields |-> items[i][f]]
                      \in Unreconciled(read[1], query)
            /\ \A e \in Unreconciled(read[1], query) :
                 \E i \in 1..Len(items) : items[i].id = e.id
            /\ \A i, j \in 1..Len(items) : items[i].id = items[j].id => i = j

C6_Witness ==
    /\ BankReconciliationAnswered
    /\ \E e \in read[1] : e.reconciled = "true" /\ e.companyid = 1
                          /\ e.bankaccount = "MainBank"
    /\ Len(res.body.reconciling_items) = 1
    /\ res.body.reconciling_items[1].reconciled = NULL
    /\ query.bankaccount = "MainBank"

(* ------------------------------------------------------------------ *)
(* C7                                                                  *)
(* ------------------------------------------------------------------ *)
OutstandingCheque == "Cheque CHQ102 has not yet cleared the bank"
UnrecordedCharges == "Bank charges not yet recorded in the ledger"

\* C7 as stated: CHQ102 carries the outstanding-cheque description and every
\* other reference carries the empty description.
C7_OnlyCHQ102Described ==
    BankReconciliationAnswered =>
        \A i \in 1..Len(res.body.reconciling_items) :
            LET item == res.body.reconciling_items[i]
            IN  item.description =
                  IF item.reference = "CHQ102" THEN OutstandingCheque ELSE ""

\* C7 as amended: CHQ102 carries the outstanding-cheque description, CHQ104
\* the unrecorded-bank-charges description, and every other reference, NULL
\* included, the empty description.
C7_KnownReferencesDescribed ==
    BankReconciliationAnswered =>
        \A i \in 1..Len(res.body.reconciling_items) :
            LET item == res.body.reconciling_items[i]
            IN  item.description =
                  CASE item.reference = "CHQ102" -> OutstandingCheque
                    [] item.reference = "CHQ104" -> UnrecordedCharges
                    [] OTHER -> ""

C7_Witness ==
    /\ BankReconciliationAnswered
    /\ \E i, j \in 1..Len(res.body.reconciling_items) :
         /\ res.body.reconciling_items[i].reference = "CHQ102"
         /\ res.body.reconciling_items[i].description = OutstandingCheque
         /\ res.body.reconciling_items[j].reference \notin {"CHQ102", "CHQ104"}
         /\ res.body.reconciling_items[j].description = ""

(* ------------------------------------------------------------------ *)
(* C8                                                                  *)
(* ------------------------------------------------------------------ *)
\* C8: a request repeated with the same parameters on the same, unchanged
\* table contents is answered with the same body, byte for byte, whatever
\* order the database delivers its rows in.
C8_ByteIdentical ==
    ( /\ pc = "done" /\ res.status = 200
      /\ prev.route = route /\ prev.query = query
      /\ \A i \in 1..Len(read) : read[i] = ledger )
    => res.body = prev.body

(* ------------------------------------------------------------------ *)
(* C9                                                                  *)
(* ------------------------------------------------------------------ *)
RECURSIVE ItemsNet(_)
ItemsNet(items) ==
    IF items = <<>> THEN 0
    ELSE Head(items).debit - Head(items).credit + ItemsNet(Tail(items))

Balances(b) ==
    <<b.ledger_balance, b.bank_statement_balance,
      b.adjusted_balance_after_reconciliation>>

\* C9: the three balances of a bank-reconciliation response come from the
\* company's ledger total and the unreconciled items returned for the
\* request: two responses for the same company whose reconciling items
\* differ in amount do not carry the same three balances.
C9_BalancesFollowItems ==
    ( /\ BankReconciliationAnswered
      /\ prev.route = route /\ prev.query.companyid = query.companyid
      /\ ItemsNet(prev.body.reconciling_items)
           # ItemsNet(res.body.reconciling_items) )
    => Balances(res.body) # Balances(prev.body)

(* ------------------------------------------------------------------ *)
(* C10                                                                 *)
(* ------------------------------------------------------------------ *)
\* the closing balance one state of the table gives
ConsistentClosing(L, q) == OpeningOf(L, q) + NetChange(L, q)

\* C10: the aggregation query comes first, the opening-balance query second;
\* the response joins the net change of the table the first query saw with
\* the opening balance of the table the second query saw, and when both saw
\* the same table the closing balance is that table's opening balance plus
\* net change.
C10_TwoReads ==
    /\ route = CashFlowRoute =>
         /\ queries \in {<<>>, <<"sqlQuery">>, <<"sqlQuery", "getOpeningBalance">>}
         /\ Len(read) <= Len(queries)
    /\ CashFlowAnswered =>
         /\ queries = <<"sqlQuery", "getOpeningBalance">> /\ Len(read) = 2
         /\ res.body.netChangeInCash = NetChange(read[1], query)
         /\ res.body.closingCashBalance
              = OpeningOf(read[2], query) + NetChange(read[1], query)
         /\ read[1] = read[2] =>
              res.body.closingCashBalance = ConsistentClosing(read[1], query)

\* a write between the two queries: the closing balance is that of neither
\* table
C10_Witness ==
    /\ CashFlowAnswered
    /\ read[1] # read[2]
    /\ res.body.closingCashBalance # ConsistentClosing(read[1], query)
    /\ res.body.closingCashBalance # ConsistentClosing(read[2], query)

====
